---- MODULE Spec2Model ----
(***************************************************************************)
(* Model of assetmanagementanalyst/scraper.py: WebsiteScraper.parse_article *)
(* (Trafilatura first, Scrapy as fallback), WebsiteScraper._run_scrapy,     *)
(* ArticleSpider.parse and WebsiteScraper.validate_content.                 *)
(*                                                                         *)
(* Python values are represented as follows.                               *)
(*   Optional[x]  : the empty sequence for None, <<x>> for a value x.      *)
(*   content str  : a record [lead, core, trail, txt]: lead whitespace     *)
(*                  characters, then core characters that start and end    *)
(*                  with a non-whitespace character, then trail whitespace *)
(*                  characters; txt names the text.  len() and strip() are *)
(*                  computed on this form.                                 *)
(*   date str     : a sequence of pieces, the piece "T" standing for the   *)
(*                  letter T, so that split('T')[0] is the prefix before   *)
(*                  the first "T".                                         *)
(*   dict         : a function whose domain is the set of keys.            *)
(***************************************************************************)
EXTENDS Integers, Sequences, FiniteSets, TLC

VARIABLES page, pc, calls, article, ret, failure, downloaded,
          fetchCalls, crawls, requests, retry_times, response,
          reactorRan, spiderResults, results, writer, rets,
          vArticle, vResult, cText, cResult,
          doc, parsed, mArticle, llm, analysis, pdf, section, sess, ui

vars == <<page, pc, calls, article, ret, failure, downloaded,
          fetchCalls, crawls, requests, retry_times, response,
          reactorRan, spiderResults, results, writer, rets,
          vArticle, vResult, cText, cResult,
          doc, parsed, mArticle, llm, analysis, pdf, section, sess, ui>>

(* ---------------------------- bounds ----------------------------------- *)

\* number of parse_article calls made on the one WebsiteScraper
MaxCalls == 2

\* largest number of leading failed responses a page gives the crawler
MaxFails == 5

(* ---------------------- program constants ------------------------------ *)

\* scraper.py:161  'RETRY_TIMES': 3
RETRY_TIMES == 3

\* scraper.py:162  'RETRY_HTTP_CODES'
RETRY_HTTP_CODES == {500, 502, 503, 504, 522, 524, 408, 429}

\* scraper.py:154  'ROBOTSTXT_OBEY': True
ROBOTSTXT_OBEY == TRUE

\* scraper.py:223  len(content.strip()) > 100
SubstantialLen == 100

\* scraper.py:256  len(article.content.strip()) < 100
MinValidLen == 100

(* ------------------------- Python values ------------------------------- *)

None == << >>

Some(x) == <<x>>

\* len(s) of a content string
StrLen(s) == s.lead + s.core + s.trail

\* s.strip(): leading and trailing whitespace removed
Strip(s) == [s EXCEPT !.lead = 0, !.trail = 0]

Str(l, c, t, x) == [lead |-> l, core |-> c, trail |-> t, txt |-> x]

\* truth value of an Optional[str] content: None and "" are false
TruthyStr(o) == o # None /\ StrLen(o[1]) > 0

\* truth value of an Optional[str] title / author: None and "" are false
TruthyText(o) == o # None /\ o[1] # ""

\* truth value of an Optional date string
TruthyDate(o) == o # None /\ Len(o[1]) > 0

\* dict.get(key): None when the key is missing
Get(d, k) == IF k \in DOMAIN d THEN d[k] ELSE None

EmptyDict == [k \in {} |-> None]

\* dict.update(item)
Update(d, item) ==
  [k \in DOMAIN d \cup DOMAIN item |-> IF k \in DOMAIN item THEN item[k] ELSE d[k]]

(* date_str.split('T')[0] *)
RECURSIVE SplitT(_)
SplitT(s) ==
  IF s = << >> \/ Head(s) = "T" THEN << >> ELSE <<Head(s)>> \o SplitT(Tail(s))

IsoDates == {"2024-03-15", "2023-01-02"}

\* datetime.fromisoformat(x) raises ValueError unless x is a calendar date
FromIsoFormatRaises(x) == ~(Len(x) = 1 /\ x[1] \in IsoDates)

FromIsoFormat(x) == x[1]

(* ------------------------------ urls ----------------------------------- *)

GoodUrl == "https://ria.example/insights"

NoSchemeUrl == "not a url"

BadIPv6Url == "http://[bad"

\* urllib.parse.urlparse raises ValueError only for a bad bracketed host
UrlParseRaises(url) == url = BadIPv6Url

\* a url both fetchers can turn into a request
Fetchable(url) == url = GoodUrl

\* the spec's syntactic validity of a url
WellFormed(url) == url = GoodUrl

(* ------------------------------ pages ---------------------------------- *)

GoodDate == <<"2024-03-15", "T", "10:30:00Z">>

BadDate == <<"not-a-date">>

\* what trafilatura.extract_metadata gives: it raises, returns None, returns
\* a metadata object that is not a dict, or returns a dict
NoMeta(kind) == [kind |-> kind, title |-> None, author |-> None, date |-> None]

DictMetas ==
  { [kind |-> "dict", title |-> t, author |-> IF t = None THEN None ELSE Some("P author"),
     date |-> d] :
      t \in {None, Some(""), Some("P title")},
      d \in {None, Some(GoodDate), Some(BadDate)} }

Metas ==
  {NoMeta("raise"), NoMeta("none"), [NoMeta("object") EXCEPT !.title = Some("P title")]}
    \cup DictMetas

PrimaryTexts ==
  { Str(0, 0, 0, "p"), Str(1, 99, 1, "p"), Str(0, 100, 0, "p"),
    Str(1, 100, 1, "p"), Str(0, 101, 0, "p"), Str(1, 150, 1, "p") }

\* what trafilatura.extract gives: it raises, returns None or returns a text
Extracts ==
  {[kind |-> "raise", text |-> None], [kind |-> "ok", text |-> None]}
    \cup {[kind |-> "ok", text |-> Some(s)] : s \in PrimaryTexts}

\* what ArticleSpider.parse computes from the response (lines 51-136)
NoSpider ==
  [title |-> None, author |-> None, date |-> None, content |-> Str(0, 0, 0, "s")]

Spiders ==
  { NoSpider,
    [title |-> Some("S title"), author |-> None, date |-> None,
     content |-> Str(0, 150, 0, "s")],
    [title |-> Some("S title"), author |-> Some("S author"), date |-> Some("2024-03-15"),
     content |-> Str(0, 150, 0, "s")],
    [title |-> None, author |-> None, date |-> None, content |-> Str(0, 150, 0, "s")],
    [title |-> Some("S title"), author |-> Some("S author"), date |-> None,
     content |-> Str(0, 40, 0, "s")],
    [title |-> Some("S title"), author |-> None, date |-> Some("2024-03-15"),
     content |-> Str(0, 100, 0, "s")] }

\* the answers the site gives the crawler: the first `fails` requests get
\* `failStatus`, every later one gets 200
Nets ==
  {[fails |-> 0, failStatus |-> 503], [fails |-> 1, failStatus |-> 404]}
    \cup {[fails |-> n, failStatus |-> 503] : n \in 1..MaxFails}

DeadPage(url, fetch) ==
  [url |-> url, robotsAllowed |-> TRUE, fetch |-> fetch, meta |-> NoMeta("none"),
   extract |-> [kind |-> "ok", text |-> None],
   net |-> [fails |-> 0, failStatus |-> 503], spider |-> NoSpider]

Pages ==
  {DeadPage("", "none"), DeadPage(BadIPv6Url, "none"),
   DeadPage(NoSchemeUrl, "none"), DeadPage(NoSchemeUrl, "raise")}
  \cup
  { [DeadPage(GoodUrl, f) EXCEPT !.robotsAllowed = r, !.net = n, !.spider = s] :
      f \in {"none", "raise"}, r \in BOOLEAN, n \in Nets, s \in Spiders }
  \cup
  { [url |-> GoodUrl, robotsAllowed |-> r, fetch |-> "ok", meta |-> m, extract |-> e,
     net |-> n, spider |-> s] :
      r \in BOOLEAN, m \in Metas, e \in Extracts, n \in Nets, s \in Spiders }

(* --------------------------- ArticleContent ---------------------------- *)

Fields == {"content", "raw_html", "title", "author", "date"}

\* scraper.py:24-31  ArticleContent(url=url): every other field is None
ArticleContent(url) ==
  [url |-> url, content |-> None, raw_html |-> None, title |-> None,
   author |-> None, date |-> None]

\* the strategy whose assignment last wrote each field of `article`
NoWriter == [f \in Fields |-> "none"]

\* validate_content without its title test
validate_content_NoTitleCheck(a) ==
  IF ~TruthyStr(a.content) \/ StrLen(Strip(a.content[1])) < MinValidLen
  THEN FALSE
  ELSE TRUE

(* WebsiteScraper.validate_content, scraper.py:254-264 *)
validate_content(a) ==
  IF ~TruthyStr(a.content) \/ StrLen(Strip(a.content[1])) < MinValidLen
  THEN FALSE
  ELSE IF ~TruthyText(a.title)
       THEN FALSE
       ELSE TRUE

(* ------------------------- primary strategy ---------------------------- *)

\* scraper.py:204  if metadata and isinstance(metadata, dict)
MetadataUsable(m) == m.kind = "dict"

\* scraper.py:207-211  the date is set only when fromisoformat accepts the
\* part before the first 'T'; a ValueError leaves it as it was
MetadataDate(m, old) ==
  IF TruthyDate(m.date) /\ ~FromIsoFormatRaises(SplitT(m.date[1]))
  THEN Some(FromIsoFormat(SplitT(m.date[1])))
  ELSE old

\* scraper.py:203-211  the article after the metadata block
WithMetadata(a, m) ==
  IF MetadataUsable(m)
  THEN [a EXCEPT !.title = m.title, !.author = m.author, !.date = MetadataDate(m, @)]
  ELSE a

WriterWithMetadata(w, m) ==
  IF MetadataUsable(m)
  THEN [w EXCEPT !["title"] = "primary", !["author"] = "primary",
                 !["date"] = IF MetadataDate(m, None) # None THEN "primary" ELSE @]
  ELSE w

\* a length test that no content passes
Substantial_Never(content) == FALSE

\* scraper.py:223  if content and len(content.strip()) > 100
Substantial(content) ==
  TruthyStr(content) /\ StrLen(Strip(content[1])) > SubstantialLen

\* a failed fetch ending the call at once
AfterFetchFailure_Terminal == "done"

\* scraper.py:201 and 231-237: where control goes when fetch_url returned
\* nothing or raised: to the Scrapy fallback
AfterFetchFailure == "fallback"

\* an exception of the primary strategy leaving parse_article
AfterPrimaryRaise_Propagates == "raised"

\* scraper.py:231-237  except Exception logs a warning, and control goes on
\* to the Scrapy fallback
AfterPrimaryRaise == "fallback"

(* ------------------------- fallback strategy --------------------------- *)

\* scraper.py:138-144  self.results = {...}
SpiderResultsOf(p) ==
  [title |-> p.spider.title, author |-> p.spider.author, date |-> p.spider.date,
   content |-> Some(p.spider.content), raw_html |-> Some("html")]

\* a parse that hands its results to the engine as one item
ParseItems_YieldsResults(p) == <<SpiderResultsOf(p)>>

\* scraper.py:49-147  the items ArticleSpider.parse hands to the engine: the
\* method has no yield and no return, so there are none
ParseItems(p) == << >>

\* scraper.py:171-174  crawler_results runs once per item_scraped signal
RECURSIVE crawler_results(_, _)
crawler_results(res, items) ==
  IF items = << >> THEN res
  ELSE crawler_results(Update(res, Head(items)), Tail(items))

\* the status the site answers to the n-th request of the crawl
StatusOf(p, n) == IF n <= p.net.fails THEN p.net.failStatus ELSE 200

\* a retry test that counts the first request against RETRY_TIMES
ShouldRetry_CountsFirst(status, retries) ==
  status \in RETRY_HTTP_CODES /\ retries + 1 < RETRY_TIMES

\* scraper.py:160-162  RETRY_ENABLED with RETRY_TIMES and RETRY_HTTP_CODES:
\* a response is retried when its status is listed and the request has been
\* retried fewer than RETRY_TIMES times
ShouldRetry(status, retries) ==
  status \in RETRY_HTTP_CODES /\ retries < RETRY_TIMES

\* scraper.py:154  with ROBOTSTXT_OBEY the crawler drops a disallowed request
RobotsBlocks(p) == ROBOTSTXT_OBEY /\ ~p.robotsAllowed

\* scraper.py:238  if results and results.get('content')
ResultsUsable(r) ==
  r # None /\ DOMAIN r[1] # {} /\ TruthyStr(Get(r[1], "content"))

\* scraper.py:239-244  the article after the fallback's assignments
WithResults(a, d) ==
  [a EXCEPT !.content = Get(d, "content"), !.title = Get(d, "title"),
            !.author = Get(d, "author"), !.raw_html = Get(d, "raw_html"),
            !.date = IF Get(d, "date") # None THEN Get(d, "date") ELSE @]

WriterWithResults(w, d) ==
  [w EXCEPT !["content"] = "fallback", !["title"] = "fallback",
            !["author"] = "fallback", !["raw_html"] = "fallback",
            !["date"] = IF Get(d, "date") # None THEN "fallback" ELSE @]

(* ------------------------------ state ---------------------------------- *)

DefaultArticle == ArticleContent(GoodUrl)

\* the state of parse_article's scraper and call, in the order of `vars`
mainVars ==
  <<page, pc, calls, article, ret, failure, downloaded, fetchCalls, crawls,
    requests, retry_times, response, reactorRan, spiderResults, results,
    writer, rets>>

\* the inputs and results of the functions studied on their own
cleanVars == <<cText, cResult>>

extractVars == <<doc, parsed, mArticle>>

analyzeVars == <<llm, analysis>>

sectionVars == <<pdf, section>>

sessVars == <<sess>>

uiVars == <<ui>>

otherVars == <<cleanVars, extractVars, analyzeVars, sectionVars, sessVars, uiVars>>

unchangedOthers == UNCHANGED otherVars

IdleClean == cText = << >> /\ cResult = None

IdleExtract == doc = << >> /\ parsed = None /\ mArticle = None

IdleAnalyze == llm = None /\ analysis = None

IdleSection == pdf = None /\ section = None

IdleSessions == sess = << >>

IdleUi == ui = << >>

IdleOthers ==
  IdleClean /\ IdleExtract /\ IdleAnalyze /\ IdleSection /\ IdleSessions /\ IdleUi

Init ==
  /\ page \in Pages
  /\ pc = "idle"
  /\ calls = 0
  /\ article = None
  /\ ret = None
  /\ failure = "none"
  /\ downloaded = None
  /\ fetchCalls = 0
  /\ crawls = 0
  /\ requests = 0
  /\ retry_times = 0
  /\ response = None
  /\ reactorRan = FALSE
  /\ spiderResults = EmptyDict
  /\ results = None
  /\ writer = NoWriter
  /\ rets = << >>
  /\ vArticle = DefaultArticle
  /\ vResult = None
  /\ IdleOthers

unchangedValidator == UNCHANGED <<vArticle, vResult>>

(* parse_article entry, scraper.py:184-196 *)
Call ==
  /\ pc \in {"idle", "done"}
  /\ calls < MaxCalls
  /\ calls' = calls + 1
  /\ downloaded' = None
  /\ fetchCalls' = 0
  /\ crawls' = 0
  /\ requests' = 0
  /\ retry_times' = 0
  /\ response' = None
  /\ results' = None
  /\ spiderResults' = EmptyDict
  /\ writer' = NoWriter
  /\ ret' = None
  /\ IF page.url = ""
     THEN /\ failure' = "No URL provided"
          /\ article' = None
          /\ pc' = "done"
          /\ rets' = Append(rets, None)
     ELSE IF UrlParseRaises(page.url)
          THEN /\ failure' = "Invalid URL format"
               /\ article' = None
               /\ pc' = "done"
               /\ rets' = Append(rets, None)
          ELSE /\ failure' = "none"
               /\ article' = Some(ArticleContent(page.url))
               /\ pc' = "primary"
               /\ UNCHANGED rets
  /\ UNCHANGED <<page, reactorRan>>
  /\ unchangedValidator
  /\ unchangedOthers

(* downloaded = trafilatura.fetch_url(url), scraper.py:199-201, 231-232 *)
PrimaryFetch ==
  /\ pc = "primary"
  /\ fetchCalls' = fetchCalls + 1
  /\ IF page.fetch = "ok"
     THEN /\ downloaded' = Some("html")
          /\ pc' = "primary_extract"
     ELSE /\ downloaded' = None
          /\ pc' = AfterFetchFailure
  /\ UNCHANGED <<page, calls, article, ret, failure, crawls, requests, retry_times,
                 response, reactorRan, spiderResults, results, writer, rets>>
  /\ unchangedValidator
  /\ unchangedOthers

(* metadata, extraction and the length test, scraper.py:202-232 *)
PrimaryExtract ==
  /\ pc = "primary_extract"
  /\ LET a0 == article[1]
         a1 == WithMetadata(a0, page.meta)
         w1 == WriterWithMetadata(writer, page.meta)
         text == page.extract.text
     IN IF page.meta.kind = "raise"
        THEN /\ pc' = AfterPrimaryRaise
             /\ UNCHANGED <<article, ret, writer, rets>>
        ELSE IF page.extract.kind = "raise"
             THEN /\ article' = Some(a1)
                  /\ writer' = w1
                  /\ pc' = AfterPrimaryRaise
                  /\ UNCHANGED <<ret, rets>>
             ELSE IF Substantial(text)
                  THEN /\ article' = Some([a1 EXCEPT !.content = text,
                                                     !.raw_html = downloaded])
                       /\ writer' = [w1 EXCEPT !["content"] = "primary",
                                               !["raw_html"] = "primary"]
                       /\ ret' = article'
                       /\ rets' = Append(rets, article')
                       /\ pc' = "done"
                  ELSE /\ article' = Some(a1)
                       /\ writer' = w1
                       /\ pc' = "fallback"
                       /\ UNCHANGED <<ret, rets>>
  /\ UNCHANGED <<page, calls, failure, downloaded, fetchCalls, crawls, requests,
                 retry_times, response, reactorRan, spiderResults, results>>
  /\ unchangedValidator
  /\ unchangedOthers

(* _run_scrapy up to process.start, scraper.py:165-177, 180-182 and 236-237 *)
RunScrapy ==
  /\ pc = "fallback"
  /\ crawls' = crawls + 1
  /\ IF reactorRan
     THEN \* process.start() raises ReactorNotRestartable: return None
          /\ results' = None
          /\ pc' = "crawl_closed"
          /\ UNCHANGED <<reactorRan, spiderResults>>
     ELSE /\ reactorRan' = TRUE
          /\ results' = Some(EmptyDict)
          /\ spiderResults' = EmptyDict
          /\ pc' = IF Fetchable(page.url) THEN "robots" ELSE "crawl_closed"
  /\ UNCHANGED <<page, calls, article, ret, failure, downloaded, fetchCalls,
                 requests, retry_times, response, writer, rets>>
  /\ unchangedValidator
  /\ unchangedOthers

(* the crawler consults robots.txt before the page request, scraper.py:154 *)
Robots ==
  /\ pc = "robots"
  /\ pc' = IF RobotsBlocks(page) THEN "crawl_closed" ELSE "request"
  /\ UNCHANGED <<page, calls, article, ret, failure, downloaded, fetchCalls, crawls,
                 requests, retry_times, response, reactorRan, spiderResults,
                 results, writer, rets>>
  /\ unchangedValidator
  /\ unchangedOthers

(* one request of the page by the crawler, scraper.py:158-162 *)
Request ==
  /\ pc = "request"
  /\ requests' = requests + 1
  /\ LET status == StatusOf(page, requests + 1)
     IN /\ response' = Some(status)
        /\ IF status = 200
           THEN /\ pc' = "spider_parse"
                /\ UNCHANGED retry_times
           ELSE IF ShouldRetry(status, retry_times)
                THEN /\ retry_times' = retry_times + 1
                     /\ pc' = "request"
                ELSE /\ pc' = "crawl_closed"
                     /\ UNCHANGED retry_times
  /\ UNCHANGED <<page, calls, article, ret, failure, downloaded, fetchCalls, crawls,
                 reactorRan, spiderResults, results, writer, rets>>
  /\ unchangedValidator
  /\ unchangedOthers

(* ArticleSpider.parse on the 200 response, scraper.py:49-147, 171-172 *)
SpiderParse ==
  /\ pc = "spider_parse"
  /\ spiderResults' = SpiderResultsOf(page)
  /\ results' = Some(crawler_results(results[1], ParseItems(page)))
  /\ pc' = "crawl_closed"
  /\ UNCHANGED <<page, calls, article, ret, failure, downloaded, fetchCalls, crawls,
                 requests, retry_times, response, reactorRan, writer, rets>>
  /\ unchangedValidator
  /\ unchangedOthers

(* return of _run_scrapy and the fallback branch, scraper.py:179, 238-252 *)
FallbackResult ==
  /\ pc = "crawl_closed"
  /\ IF ResultsUsable(results)
     THEN /\ article' = Some(WithResults(article[1], results[1]))
          /\ writer' = WriterWithResults(writer, results[1])
          /\ ret' = article'
          /\ rets' = Append(rets, article')
          /\ UNCHANGED failure
     ELSE /\ ret' = None
          /\ rets' = Append(rets, None)
          /\ failure' = "All content extraction methods failed"
          /\ UNCHANGED <<article, writer>>
  /\ pc' = "done"
  /\ UNCHANGED <<page, calls, downloaded, fetchCalls, crawls, requests, retry_times,
                 response, reactorRan, spiderResults, results>>
  /\ unchangedValidator
  /\ unchangedOthers

Next ==
  \/ Call
  \/ PrimaryFetch
  \/ PrimaryExtract
  \/ RunScrapy
  \/ Robots
  \/ Request
  \/ SpiderParse
  \/ FallbackResult

Spec == Init /\ [][Next]_vars

\* the steps of a call once it has been entered: each is a statement of
\* parse_article or a step of the blocking process.start(), so it is taken
CallStep ==
  \/ PrimaryFetch
  \/ PrimaryExtract
  \/ RunScrapy
  \/ Robots
  \/ Request
  \/ SpiderParse
  \/ FallbackResult

SpecLive == Spec /\ WF_vars(CallStep)

(* ------------------- validate_content on its own ----------------------- *)

ValidatorTexts ==
  { Str(0, 0, 0, "v"), Str(2, 0, 0, "v"), Str(0, 5, 0, "v"), Str(1, 99, 1, "v"),
    Str(0, 99, 0, "v"), Str(0, 100, 0, "v"), Str(3, 100, 2, "v"), Str(0, 150, 0, "v") }

ValidatorArticles ==
  { [ArticleContent(GoodUrl) EXCEPT !.content = c, !.title = t, !.author = a, !.date = d] :
      c \in {None} \cup {Some(x) : x \in ValidatorTexts},
      t \in {None, Some(""), Some("T")},
      a \in {None, Some("A")},
      d \in {None, Some("2024-03-15")} }

InitValidate ==
  /\ page = DeadPage("", "none")
  /\ pc = "idle"
  /\ calls = 0
  /\ article = None
  /\ ret = None
  /\ failure = "none"
  /\ downloaded = None
  /\ fetchCalls = 0
  /\ crawls = 0
  /\ requests = 0
  /\ retry_times = 0
  /\ response = None
  /\ reactorRan = FALSE
  /\ spiderResults = EmptyDict
  /\ results = None
  /\ writer = NoWriter
  /\ rets = << >>
  /\ vArticle \in ValidatorArticles
  /\ vResult = None
  /\ IdleOthers

(* a caller holding an ArticleContent applies validate_content to it *)
Validate ==
  /\ vResult = None
  /\ vResult' = Some(validate_content(vArticle))
  /\ UNCHANGED <<page, pc, calls, article, ret, failure, downloaded, fetchCalls,
                 crawls, requests, retry_times, response, reactorRan,
                 spiderResults, results, writer, rets, vArticle>>
  /\ unchangedOthers

NextValidate == Validate

SpecValidate == InitValidate /\ [][NextValidate]_vars

(* ======================== claims C1 .. C10 ============================= *)

\* the call has returned
Done == pc = "done"

\* the url was turned away before any strategy ran (scraper.py:186-194)
UrlRejected == page.url = "" \/ UrlParseRaises(page.url)

\* the title the primary strategy's metadata carries
PrimaryTitle(p) == IF p.meta.kind \in {"dict", "object"} THEN p.meta.title ELSE None

\* the page may be crawled, and the primary strategy fetched it and
\* extracted without raising
PrimaryRan(p) ==
  /\ Fetchable(p.url)
  /\ p.robotsAllowed
  /\ p.fetch = "ok"
  /\ p.meta.kind # "raise"
  /\ p.extract.kind = "ok"

\* content present with trimmed length of at least 100
LongEnough(c) == c # None /\ StrLen(Strip(c[1])) >= 100

\* title present and non-empty
HasTitle(t) == t # None /\ t[1] # ""

\* the spider parsed the page in this call and its result is valid
FallbackParsedValid ==
  /\ spiderResults # EmptyDict
  /\ LongEnough(spiderResults.content)
  /\ HasTitle(spiderResults.title)

\* C1: whenever the primary strategy yields content of at least 100
\* characters and a non-empty title, the finished call returns an
\* ArticleContent with exactly that content, never ran the fallback, and
\* made exactly one fetch.
C1_PrimaryWins ==
  (Done /\ PrimaryRan(page) /\ LongEnough(page.extract.text)
        /\ HasTitle(PrimaryTitle(page)))
    => /\ ret # None
       /\ ret[1].content = page.extract.text
       /\ crawls = 0
       /\ fetchCalls + requests = 1

\* C2: whenever the primary strategy yields no content or content shorter
\* than 100 characters and the fallback's parse of the page yields content
\* of at least 100 characters and a title, the finished call returns an
\* ArticleContent whose title, author, date and content are the fallback's.
C2_FallbackFields ==
  (Done /\ PrimaryRan(page) /\ ~LongEnough(page.extract.text) /\ FallbackParsedValid)
    => /\ ret # None
       /\ ret[1].title = spiderResults.title
       /\ ret[1].author = spiderResults.author
       /\ ret[1].date = spiderResults.date
       /\ ret[1].content = spiderResults.content

\* C3: whenever both strategies yield an insufficient result (no content,
\* trimmed content below 100 characters, or no title), the finished call
\* returns no ArticleContent.
C3_BothInsufficient ==
  (Done /\ PrimaryRan(page)
        /\ ~(LongEnough(page.extract.text) /\ HasTitle(PrimaryTitle(page)))
        /\ ~FallbackParsedValid)
    => ret = None

\* C4: every ArticleContent a finished call returns satisfies
\* validate_content.
C4_ReturnedIsValid ==
  (Done /\ ret # None) => validate_content(ret[1])

C6_Original ==
  (~UrlRejected /\ page.fetch # "ok") => (crawls = 0 /\ requests = 0)

\* C6 amended: when the primary fetch returns nothing or raises, the
\* finished call has made exactly one primary fetch and has run the
\* fallback crawl exactly once.
C6_FallbackAfterFetchFailure ==
  (Done /\ ~UrlRejected /\ page.fetch # "ok") => (fetchCalls = 1 /\ crawls = 1)

\* a call whose primary fetch raised went on to request the page again
C6_Witness ==
  /\ Done
  /\ page.fetch = "raise"
  /\ crawls = 1
  /\ requests >= 1

\* C7: validate_content answers true exactly when content is present with
\* trimmed length of at least 100 and the title is present and non-empty,
\* and it changes no field of the article.
C7_Validate ==
  /\ [](vResult # None =>
          (vResult[1] <=> (LongEnough(vArticle.content) /\ HasTitle(vArticle.title))))
  /\ [][vArticle' = vArticle]_vars

\* validate_content rejected an article with ample content and no title
C7_Witness ==
  /\ vResult = Some(FALSE)
  /\ LongEnough(vArticle.content)
  /\ vArticle.title = None

\* the crawl has ended after requesting the page
CrawlEnded == pc \in {"crawl_closed", "done"} /\ requests >= 1

\* every request of the crawl is answered with the page's failing status
AlwaysFails(p) == p.net.fails >= requests /\ p.net.fails >= 1

\* C8 as stated: a fetch whose every attempt fails with a retryable failure
\* (or with 404) is attempted exactly 3 times, and no fetch makes more than
\* 3 attempts.
C8_Original ==
  /\ requests <= 3
  /\ (CrawlEnded /\ AlwaysFails(page)) => requests = 3

\* C8 amended: a crawl whose every request is answered with a status in
\* RETRY_HTTP_CODES makes exactly 4 requests (the first and 3 retries) and
\* parses nothing; a 404 is not retried; no crawl makes more than 4 requests.
C8_RetryBudget ==
  /\ requests <= 4
  /\ (CrawlEnded /\ AlwaysFails(page) /\ page.net.failStatus \in RETRY_HTTP_CODES)
       => (requests = 4 /\ spiderResults = EmptyDict)
  /\ (CrawlEnded /\ AlwaysFails(page) /\ page.net.failStatus = 404) => requests = 1

\* a crawl gave up after four failed requests
C8_Witness ==
  /\ CrawlEnded
  /\ requests = 4
  /\ retry_times = 3
  /\ response = Some(503)

\* C9: for a url the site's robots policy disallows, no fetch of the page is
\* ever issued by either strategy.
C9_RobotsNoFetch ==
  ~page.robotsAllowed => (fetchCalls = 0 /\ requests = 0)

\* C10: for a malformed url no fetch is attempted and no strategy runs, and
\* the call returns no ArticleContent.
C10_InvalidUrlFailsFast ==
  ~WellFormed(page.url) => (fetchCalls = 0 /\ crawls = 0 /\ (Done => ret = None))

(* ================== claims C11, C16, C20 (parse_article) =============== *)

\* C11: on one WebsiteScraper and an unchanged page, every call returns
\* what the first call returned, field for field.
C11_Idempotent ==
  \A i \in 1..Len(rets) : rets[i] = rets[1]

\* a second call went through the fallback on a page the spider can parse
C11_Witness ==
  /\ Len(rets) = 2
  /\ crawls = 1
  /\ page.fetch = "ok"
  /\ LongEnough(Some(page.spider.content))
  /\ StatusOf(page, 1) = 200

\* control is inside the fallback, or the fallback has run in this call
FallbackReached ==
  pc \in {"fallback", "robots", "request", "spider_parse", "crawl_closed"} \/ crawls >= 1

\* the primary strategy ran to its end and gave content of trimmed length
\* above 100
PrimaryUsable(p) ==
  /\ p.fetch = "ok"
  /\ p.meta.kind # "raise"
  /\ p.extract.kind = "ok"
  /\ p.extract.text # None
  /\ StrLen(Strip(p.extract.text[1])) > 100

\* C16 as stated: a call that reaches the fallback has made exactly two
\* fetches of the url.
C16_Original ==
  (Done /\ crawls >= 1) => fetchCalls + requests = 2

\* C16 amended: the fallback starts only after the one primary fetch and
\* the primary extraction are over and gave nothing usable; the crawler
\* requests the page itself, inside the one crawl, and the spider parses
\* only the crawl's own 200 response; the crawl makes between 0 and 4
\* requests, so a call that reaches the fallback makes 1 to 5 fetches.
C16_Sequential ==
  /\ FallbackReached => (fetchCalls = 1 /\ ~PrimaryUsable(page) /\ crawls <= 1)
  /\ requests >= 1 => crawls = 1
  /\ spiderResults # EmptyDict => (requests >= 1 /\ response = Some(200))
  /\ requests <= 4
  /\ (Done /\ crawls = 1) => fetchCalls + requests \in 1..5

\* a call fetched the page for the primary strategy and again in the crawl
C16_Witness ==
  /\ Done
  /\ downloaded # None
  /\ crawls = 1
  /\ requests = 1
  /\ spiderResults # EmptyDict

\* C20: the mapping _run_scrapy returns is empty (or None on error) for
\* every page, and a call that runs the fallback returns no ArticleContent.
C20_FallbackNeverReturns ==
  /\ results \in {None, Some(EmptyDict)}
  /\ (Done /\ crawls >= 1) => ret = None

\* the spider parsed a valid article and the call still returned None
C20_Witness ==
  /\ Done
  /\ FallbackParsedValid
  /\ results = Some(EmptyDict)
  /\ ret = None

(* ------------------------------ claim C21 ------------------------------ *)

\* the call has been entered and has not returned
InCall == pc \notin {"idle", "done"}

\* C21: parse_article never lets an exception out: whatever fails, the call
\* ends after at most one primary fetch and at most one fallback crawl, and
\* returns None or an ArticleContent whose url is the argument.
C21_NoException ==
  /\ [](/\ pc # "raised"
        /\ fetchCalls <= 1
        /\ crawls <= 1
        /\ Done => (ret = None \/ ret[1].url = page.url))
  /\ [](InCall => <>Done)

C21_Witness ==
  /\ Done
  /\ calls = 2
  /\ page.fetch = "ok"
  /\ page.meta.kind = "raise"
  /\ fetchCalls = 1
  /\ crawls = 1
  /\ results = None
  /\ ret = None

(* ============== ArticleSpider.clean_text, character by character ======= *)
(* A text is a sequence of one-character strings.                          *)

\* the parse_article machine before any call, for the functions studied on
\* their own
MainIdle ==
  /\ page = DeadPage("", "none")
  /\ pc = "idle"
  /\ calls = 0
  /\ article = None
  /\ ret = None
  /\ failure = "none"
  /\ downloaded = None
  /\ fetchCalls = 0
  /\ crawls = 0
  /\ requests = 0
  /\ retry_times = 0
  /\ response = None
  /\ reactorRan = FALSE
  /\ spiderResults = EmptyDict
  /\ results = None
  /\ writer = NoWriter
  /\ rets = << >>

IdleValidator == vArticle = DefaultArticle /\ vResult = None

\* largest number of pieces a text given to clean_text is made of
MaxPieces == 3

\* the characters the regular expression class \s matches
IsSpace(c) == c \in {" ", "\t", "\n"}

LowerOf ==
  [C |-> "c", O |-> "o", K |-> "k", I |-> "i", E |-> "e", S |-> "s", U |-> "u",
   B |-> "b", R |-> "r", P |-> "p", V |-> "v", A |-> "a", Y |-> "y", D |-> "d",
   T |-> "t", M |-> "m", N |-> "n"]

\* re.IGNORECASE compares letters without their case
Lower(c) == IF c \in DOMAIN LowerOf THEN LowerOf[c] ELSE c

\* scraper.py:46  (cookie|privacy|subscribe|advertisement), in this order
Denylist ==
  << <<"c", "o", "o", "k", "i", "e">>,
     <<"p", "r", "i", "v", "a", "c", "y">>,
     <<"s", "u", "b", "s", "c", "r", "i", "b", "e">>,
     <<"a", "d", "v", "e", "r", "t", "i", "s", "e", "m", "e", "n", "t">> >>

RECURSIVE LStrip(_)
LStrip(s) == IF s # << >> /\ IsSpace(Head(s)) THEN LStrip(Tail(s)) ELSE s

RECURSIVE RStrip(_)
RStrip(s) ==
  IF s # << >> /\ IsSpace(s[Len(s)]) THEN RStrip(SubSeq(s, 1, Len(s) - 1)) ELSE s

\* text.strip()
StripText(s) == RStrip(LStrip(s))

\* re.sub(r'\s+', ' ', s): every maximal run of whitespace becomes one space
RECURSIVE CollapseSpace(_)
CollapseSpace(s) ==
  IF s = << >> THEN << >>
  ELSE IF IsSpace(Head(s)) THEN <<" ">> \o CollapseSpace(LStrip(s))
       ELSE <<Head(s)>> \o CollapseSpace(Tail(s))

\* the word w occurs in s at position i, letters compared without case
MatchesAt(s, i, w) ==
  /\ i + Len(w) - 1 <= Len(s)
  /\ \A k \in 1..Len(w) : Lower(s[i + k - 1]) = w[k]

\* the denylist words that match at position i
WordsAt(s, i) == {j \in 1..Len(Denylist) : MatchesAt(s, i, Denylist[j])}

MinOf(S) == CHOOSE x \in S : \A y \in S : x <= y

\* re.sub(words, '', s, flags=re.IGNORECASE) from position i: one pass from
\* left to right, each match dropped, scanning resumed after the match
RECURSIVE RemoveWordsFrom(_, _)
RemoveWordsFrom(s, i) ==
  IF i > Len(s) THEN << >>
  ELSE IF WordsAt(s, i) # {}
       THEN RemoveWordsFrom(s, i + Len(Denylist[MinOf(WordsAt(s, i))]))
       ELSE <<s[i]>> \o RemoveWordsFrom(s, i + 1)

(* ArticleSpider.clean_text, scraper.py:41-47 *)
clean_text(text) ==
  IF text = << >>
  THEN << >>
  ELSE RemoveWordsFrom(CollapseSpace(StripText(text)), 1)

TextPieces ==
  { <<" ">>, <<"\n", " ">>, <<"a">>, <<"b">>,
    <<"c", "o", "o", "k", "i", "e">>, <<"C", "o", "o", "K", "I", "E">>,
    <<"c", "o", "o">>, <<"k", "i", "e">>,
    <<"p", "r", "i", "v", "a", "c", "y">> }

RECURSIVE TextsOf(_)
TextsOf(n) ==
  IF n = 0 THEN {<< >>}
  ELSE TextsOf(n - 1) \cup {t \o q : t \in TextsOf(n - 1), q \in TextPieces}

InitClean ==
  /\ MainIdle
  /\ IdleValidator
  /\ cText \in TextsOf(MaxPieces)
  /\ cResult = None
  /\ IdleExtract /\ IdleAnalyze /\ IdleSection /\ IdleSessions /\ IdleUi

(* a caller applies clean_text to a text *)
CleanText ==
  /\ cResult = None
  /\ cResult' = Some(clean_text(cText))
  /\ UNCHANGED <<mainVars, vArticle, vResult, cText, extractVars, analyzeVars,
                 sectionVars, sessVars, uiVars>>

NextClean == CleanText

SpecClean == InitClean /\ [][NextClean]_vars

\* some denylist word occurs somewhere in s, in any letter case
HasDenyWord(s) == \E i \in 1..Len(s) : WordsAt(s, i) # {}

\* no leading or trailing whitespace and no two whitespace characters in a row
SpaceCollapsed(s) ==
  /\ s # << >> => (~IsSpace(s[1]) /\ ~IsSpace(s[Len(s)]))
  /\ \A i \in 1..(Len(s) - 1) : ~(IsSpace(s[i]) /\ IsSpace(s[i + 1]))

\* C19: the result of clean_text has its whitespace collapsed, contains no
\* denylist word in any letter case, and is left unchanged by clean_text.
C19_CleanText ==
  cResult # None =>
    /\ SpaceCollapsed(cResult[1])
    /\ ~HasDenyWord(cResult[1])
    /\ clean_text(cResult[1]) = cResult[1]

(* ============ ArticleSpider.parse, selector by selector ================ *)
(* A document gives, for each selector of a chain, what                    *)
(* response.css(selector).get() returns, and the text nodes of its         *)
(* paragraphs, list items and headings in document order, each with the    *)
(* set of main-content containers it lies in.                              *)

\* largest number of text nodes in a document
MaxBlocks == 3

\* scraper.py:105-112  the number of main_content_selectors
NumContainers == 6

\* scraper.py:126  len(self.clean_text(text)) > 30
MinNodeLen == 30

\* truth value of an Optional[str] held as a sequence of characters
TruthyChars(o) == o # None /\ o[1] # << >>

\* scraper.py:62-66 and 78-82: the value of the variable after the loop over
\* the selectors from the i-th on: the cleaned first truthy match, else what
\* the last selector returned
RECURSIVE FirstMatch(_, _)
FirstMatch(matches, i) ==
  IF TruthyChars(matches[i]) THEN Some(clean_text(matches[i][1]))
  ELSE IF i = Len(matches) THEN matches[i]
       ELSE FirstMatch(matches, i + 1)

\* a parse of dates that does not cut the string at 'T'
RECURSIVE SpiderDate_NoSplit(_, _)
SpiderDate_NoSplit(dates, i) ==
  IF i > Len(dates) THEN None
  ELSE IF TruthyDate(dates[i]) /\ ~FromIsoFormatRaises(dates[i][1])
       THEN Some(FromIsoFormat(dates[i][1]))
       ELSE SpiderDate_NoSplit(dates, i + 1)

\* scraper.py:94-101: the first selector whose value fromisoformat accepts
\* after split('T')[0]; a ValueError moves on to the next selector
RECURSIVE SpiderDate(_, _)
SpiderDate(dates, i) ==
  IF i > Len(dates) THEN None
  ELSE IF TruthyDate(dates[i]) /\ ~FromIsoFormatRaises(SplitT(dates[i][1]))
       THEN Some(FromIsoFormat(SplitT(dates[i][1])))
       ELSE SpiderDate(dates, i + 1)

\* scraper.py:115-121  the text nodes under the k-th container, in order
RECURSIVE ContainerNodes(_, _)
ContainerNodes(blocks, k) ==
  IF blocks = << >> THEN << >>
  ELSE (IF k \in Head(blocks).inside THEN <<Head(blocks).text>> ELSE << >>)
         \o ContainerNodes(Tail(blocks), k)

\* scraper.py:132  the text nodes of the whole document, in order
AllNodes(blocks) == [i \in 1..Len(blocks) |-> blocks[i].text]

\* scraper.py:124-127  the cleaned nodes that are non-empty and longer than 30
RECURSIVE Passing(_)
Passing(nodes) ==
  IF nodes = << >> THEN << >>
  ELSE (IF clean_text(Head(nodes)) # << >> /\ Len(clean_text(Head(nodes))) > MinNodeLen
        THEN <<clean_text(Head(nodes))>> ELSE << >>)
         \o Passing(Tail(nodes))

\* ' '.join(texts)
RECURSIVE Join(_)
Join(texts) ==
  IF texts = << >> THEN << >>
  ELSE IF Len(texts) = 1 THEN texts[1]
       ELSE texts[1] \o <<" ">> \o Join(Tail(texts))

\* a container loop that goes on to the next container when the filtered
\* content of one is empty
RECURSIVE ContainerContent_SkipsEmpty(_, _)
ContainerContent_SkipsEmpty(blocks, k) ==
  IF k > NumContainers THEN << >>
  ELSE IF Join(Passing(ContainerNodes(blocks, k))) # << >>
       THEN Join(Passing(ContainerNodes(blocks, k)))
       ELSE ContainerContent_SkipsEmpty(blocks, k + 1)

\* scraper.py:104-128  content after the loop over the containers from the
\* k-th on: the first container with any text node decides, then break
RECURSIVE ContainerContent(_, _)
ContainerContent(blocks, k) ==
  IF k > NumContainers THEN << >>
  ELSE IF ContainerNodes(blocks, k) # << >>
       THEN Join(Passing(ContainerNodes(blocks, k)))
       ELSE ContainerContent(blocks, k + 1)

\* scraper.py:103-136  content, with the whole-document scan when empty
SpiderContent(blocks) ==
  IF ContainerContent(blocks, 1) = << >>
  THEN Join(Passing(AllNodes(blocks)))
  ELSE ContainerContent(blocks, 1)

\* scraper.py:49-144  self.results after parse
SpiderParseResults(d) ==
  [title |-> FirstMatch(d.title, 1), author |-> FirstMatch(d.author, 1),
   date |-> SpiderDate(d.date, 1), content |-> Some(SpiderContent(d.blocks)),
   raw_html |-> Some("html")]

(* ------------------------------ documents ------------------------------ *)

Rep(c, n) == [i \in 1..n |-> c]

TitleText(digit) == <<" ", "T", digit, "\n", " ", "x">>

Blank == <<"\n", " ">>

\* what the six title selectors return: ::text selectors give None or a
\* text node, attribute selectors give None or the attribute, maybe empty
TitleMatches ==
  { <<h, og, tw, ti, at, pt>> :
      h \in {None, Some(Blank), Some(TitleText("1"))},
      og \in {None, Some(<< >>), Some(TitleText("2"))},
      tw \in {None, Some(TitleText("3"))},
      ti \in {None, Some(Blank), Some(TitleText("4"))},
      at \in {None, Some(TitleText("5"))},
      pt \in {None, Some(TitleText("6"))} }

AuthorMatches ==
  { <<ma, mb, au, by, re>> :
      ma \in {None, Some(<< >>), Some(<<"A", "1">>)},
      mb \in {None, Some(<<"S", "u", "b", "s", "c", "r", "i", "b", "e">>),
              Some(<<"A", "2">>)},
      au \in {None, Some(Blank), Some(<<" ", "A", "3">>)},
      by \in {None, Some(<<"A", "4">>)},
      re \in {None, Some(<<"A", "5">>)} }

OtherDate == <<"2023-01-02">>

DateMatches ==
  { <<d1, d2, d3, d4, d5>> :
      d1 \in {None, Some(GoodDate), Some(BadDate), Some(OtherDate)},
      d2 \in {None, Some(GoodDate), Some(BadDate), Some(OtherDate)},
      d3 \in {None, Some(GoodDate), Some(BadDate)},
      d4 \in {None, Some(BadDate), Some(OtherDate)},
      d5 \in {None, Some(GoodDate)} }

\* text nodes: 31 characters; 32 characters inside whitespace; 30 characters
\* followed by a denylist word
NodeTexts ==
  { Rep("x", 31),
    <<" ">> \o Rep("y", 32) \o <<"\n">>,
    Rep("z", 30) \o <<"c", "o", "o", "k", "i", "e">> }

Blocks ==
  { [text |-> t, inside |-> c] : t \in NodeTexts, c \in {{}, {1}, {2}} }

RECURSIVE BlockSeqs(_)
BlockSeqs(n) ==
  IF n = 0 THEN {<< >>}
  ELSE BlockSeqs(n - 1) \cup {Append(b, x) : b \in BlockSeqs(n - 1), x \in Blocks}

NoMatches(n) == [i \in 1..n |-> None]

PlainDoc ==
  [title |-> NoMatches(6), author |-> NoMatches(5), date |-> NoMatches(5),
   blocks |-> << >>, meta |-> NoMeta("none")]

Docs ==
  {[PlainDoc EXCEPT !.title = t] : t \in TitleMatches}
    \cup {[PlainDoc EXCEPT !.author = a] : a \in AuthorMatches}
    \cup {[PlainDoc EXCEPT !.date = d, !.title[1] = Some(TitleText("1")),
                           !.meta = [kind |-> "dict", title |-> Some("P title"),
                                     author |-> Some("P author"), date |-> d[1]]] :
             d \in DateMatches}
    \cup {[PlainDoc EXCEPT !.blocks = b] : b \in BlockSeqs(MaxBlocks)}
    \cup {[PlainDoc EXCEPT !.meta = m] : m \in Metas}

InitExtract ==
  /\ MainIdle
  /\ IdleValidator
  /\ IdleClean /\ IdleAnalyze /\ IdleSection /\ IdleSessions /\ IdleUi
  /\ doc \in Docs
  /\ parsed = None
  /\ mArticle = None

(* ArticleSpider.parse applied to the document, scraper.py:49-147 *)
SpiderParseDoc ==
  /\ parsed = None
  /\ parsed' = Some(SpiderParseResults(doc))
  /\ UNCHANGED <<mainVars, vArticle, vResult, cleanVars, doc, mArticle, analyzeVars,
                 sectionVars, sessVars, uiVars>>

(* the metadata block of parse_article on the document's metadata,
   scraper.py:196, 203-211 *)
MetadataBlock ==
  /\ mArticle = None
  /\ doc.meta.kind # "raise"
  /\ mArticle' = Some(WithMetadata(ArticleContent(GoodUrl), doc.meta))
  /\ UNCHANGED <<mainVars, vArticle, vResult, cleanVars, doc, parsed, analyzeVars,
                 sectionVars, sessVars, uiVars>>

NextExtract ==
  \/ SpiderParseDoc
  \/ MetadataBlock

SpecExtract == InitExtract /\ [][NextExtract]_vars

(* ============ ContentAnalyzer.analyze_content (analyzer.py) ============ *)

ContentAnalysisFields == {"investment_themes", "key_points", "summary"}

\* analyzer.py:44-48  the record returned from the except branch
ErrorAnalysis ==
  [investment_themes |-> <<"Error analyzing themes">>,
   key_points |-> <<"Error analyzing content">>,
   summary |-> "Analysis failed due to formatting error. Please try again."]

\* what the model call does: it raises, or it answers with a text that is
\* not JSON, or with a JSON object holding some of the fields; a field value
\* is <<"list", l>>, <<"str", s>> or <<"null">>
JsonObjects ==
  { [f \in fs |-> IF f = "investment_themes" THEN t ELSE IF f = "key_points" THEN k ELSE u] :
      fs \in SUBSET ContentAnalysisFields,
      t \in {<<"list", << >>>>, <<"list", <<"ESG">>>>, <<"list", <<"ESG", "AI">>>>, <<"str", "ESG">>},
      k \in {<<"list", << >>>>, <<"list", <<"rates fall">>>>, <<"null">>},
      u \in {<<"str", "">>, <<"str", "a summary">>, <<"null">>} }

LlmOutcomes ==
  {[kind |-> "raise", error |-> e] : e \in {"AuthenticationError", "APITimeoutError"}}
    \cup {[kind |-> "text", json |-> None]}
    \cup {[kind |-> "text", json |-> Some(o)] : o \in JsonObjects}

\* analyzer.py:8-11  pydantic validation of the three fields
FieldValid(f, v) ==
  IF f = "summary" THEN v[1] = "str" ELSE v[1] = "list"

\* analyzer.py:20, 34  PydanticOutputParser.parse: OutputParserException
\* unless the text is a JSON object with the three fields well typed
ParserRaises(out) ==
  \/ out.json = None
  \/ \E f \in ContentAnalysisFields :
       f \notin DOMAIN out.json[1] \/ ~FieldValid(f, out.json[1][f])

ParsedAnalysis(out) == [f \in ContentAnalysisFields |-> out.json[1][f][2]]

\* analyzer.py:37-40  chain.invoke: the value, or the exception raised
ChainInvoke(out) ==
  IF out.kind = "raise" THEN [raised |-> Some(out.error), value |-> None]
  ELSE IF ParserRaises(out)
       THEN [raised |-> Some("OutputParserException"), value |-> None]
       ELSE [raised |-> None, value |-> Some(ParsedAnalysis(out))]

\* an except clause that catches the parser's exception only
ExceptBranch_ParserOnly(e) ==
  IF e = "OutputParserException"
  THEN [outcome |-> "returned", value |-> Some(ErrorAnalysis)]
  ELSE [outcome |-> "raised", value |-> None]

\* analyzer.py:42-48  except Exception: log, return the error record
ExceptBranch(e) == [outcome |-> "returned", value |-> Some(ErrorAnalysis)]

\* analyzer.py:22-48
analyze_content(out) ==
  IF ChainInvoke(out).raised # None
  THEN ExceptBranch(ChainInvoke(out).raised[1])
  ELSE [outcome |-> "returned", value |-> ChainInvoke(out).value]

InitAnalyze ==
  /\ MainIdle
  /\ IdleValidator
  /\ IdleClean /\ IdleExtract /\ IdleSection /\ IdleSessions /\ IdleUi
  /\ llm \in {Some(o) : o \in LlmOutcomes}
  /\ analysis = None

AnalyzeContent ==
  /\ analysis = None
  /\ analysis' = Some(analyze_content(llm[1]))
  /\ UNCHANGED <<mainVars, vArticle, vResult, cleanVars, extractVars, llm,
                 sectionVars, sessVars, uiVars>>

NextAnalyze == AnalyzeContent

SpecAnalyze == InitAnalyze /\ [][NextAnalyze]_vars

(* ------------------------------ claim C14 ------------------------------ *)

\* the model answered with a JSON object of the three well-typed fields
WellFormedAnswer(o) ==
  /\ o.kind = "text"
  /\ o.json # None
  /\ DOMAIN o.json[1] = ContentAnalysisFields
  /\ o.json[1].investment_themes[1] = "list"
  /\ o.json[1].key_points[1] = "list"
  /\ o.json[1].summary[1] = "str"

\* C14: analyze_content never raises; when the model call or the parsing
\* of its output fails it returns the fixed error record, and otherwise it
\* returns the parsed record unchanged.
C14_NeverRaises ==
  analysis # None =>
    /\ analysis[1].outcome = "returned"
    /\ analysis[1].value # None
    /\ IF WellFormedAnswer(llm[1])
       THEN analysis[1].value[1] =
              [investment_themes |-> llm[1].json[1].investment_themes[2],
               key_points |-> llm[1].json[1].key_points[2],
               summary |-> llm[1].json[1].summary[2]]
       ELSE analysis[1].value[1] =
              [investment_themes |-> <<"Error analyzing themes">>,
               key_points |-> <<"Error analyzing content">>,
               summary |-> "Analysis failed due to formatting error. Please try again."]

C14_Witness ==
  /\ analysis # None
  /\ llm[1].kind = "raise"
  /\ llm[1].error = "APITimeoutError"
  /\ analysis[1].outcome = "returned"
  /\ analysis[1].value = Some(ErrorAnalysis)

(* ====== ADVAnalyzer.extract_section_from_pdf (adv_analyzer.py) ========= *)
(* The text of the PDF is a sequence of pieces; a marker is a sequence of  *)
(* pieces too, and the two markers of a branch start with the same piece,  *)
(* as "Item 5 ..." and "Item 6" do.  Indices are Python's, from 0.         *)

\* largest number of pieces in the text of a PDF
MaxTokens == 5

\* adv_analyzer.py:83  if "Item 5" in section_title
IsItem5(section_title) == section_title = "Item 5"

\* adv_analyzer.py:84, 95
StartMarker(section_title) ==
  IF IsItem5(section_title)
  THEN <<"Item ", "5 Information About Your Advisory Business">>
  ELSE <<"WHAT ", "FEES WILL I PAY?">>

\* adv_analyzer.py:85, 96
EndMarker(section_title) ==
  IF IsItem5(section_title)
  THEN <<"Item ", "6">>
  ELSE <<"WHAT ", "ARE YOUR LEGAL OBLIGATIONS">>

\* str.find(sub, start): the lowest index >= start where sub occurs, or -1
RECURSIVE Find(_, _, _)
Find(text, sub, start) ==
  IF start + Len(sub) > Len(text) THEN -1
  ELSE IF SubSeq(text, start + 1, start + Len(sub)) = sub THEN start
       ELSE Find(text, sub, start + 1)

\* text[a:b] for 0 <= a
Slice(text, a, b) == SubSeq(text, a + 1, b)

\* a search for the end marker from the beginning of the text
EndIndex_FromZero(text, end_marker, start_idx) ==
  IF start_idx # -1 THEN Find(text, end_marker, 0) ELSE -1

\* adv_analyzer.py:87, 98
\* end_idx = full_text.find(end_marker, start_idx) if start_idx != -1 else -1
EndIndex(text, end_marker, start_idx) ==
  IF start_idx # -1 THEN Find(text, end_marker, start_idx) ELSE -1

\* adv_analyzer.py:86-104  section_text, or None for the early return
SectionText(text, section_title) ==
  LET start_idx == Find(text, StartMarker(section_title), 0)
      end_idx == EndIndex(text, EndMarker(section_title), start_idx)
  IN IF start_idx # -1 /\ end_idx # -1
     THEN Some(Slice(text, start_idx, end_idx))
     ELSE None

\* adv_analyzer.py:67-145  the text given to the model, the number of model
\* calls and the value returned
extract_section_from_pdf(p) ==
  IF SectionText(p.text, p.section_title) = None
  THEN [section_text |-> None, llmCalls |-> 0, ret |-> None]
  ELSE [section_text |-> SectionText(p.text, p.section_title), llmCalls |-> 1,
        ret |-> IF p.llm = "ok" THEN Some("summary") ELSE None]

SectionTitles == {"Item 5", "fees"}

Pieces(section_title) ==
  {StartMarker(section_title)[1], StartMarker(section_title)[2],
   EndMarker(section_title)[2], "x"}

RECURSIVE PdfTexts(_, _)
PdfTexts(section_title, n) ==
  IF n = 0 THEN {<< >>}
  ELSE PdfTexts(section_title, n - 1)
         \cup {Append(t, x) : t \in PdfTexts(section_title, n - 1), x \in Pieces(section_title)}

Pdfs ==
  UNION { {[section_title |-> st, text |-> t, llm |-> l] :
             t \in PdfTexts(st, MaxTokens), l \in {"ok", "raise"}} : st \in SectionTitles }

InitSection ==
  /\ MainIdle
  /\ IdleValidator
  /\ IdleClean /\ IdleExtract /\ IdleAnalyze /\ IdleSessions /\ IdleUi
  /\ pdf \in {Some(p) : p \in Pdfs}
  /\ section = None

ExtractSection ==
  /\ section = None
  /\ section' = Some(extract_section_from_pdf(pdf[1]))
  /\ UNCHANGED <<mainVars, vArticle, vResult, cleanVars, extractVars, analyzeVars,
                 pdf, sessVars, uiVars>>

NextSection == ExtractSection

SpecSection == InitSection /\ [][NextSection]_vars

(* ------------------------------ claim C15 ------------------------------ *)

\* the positions, from 1, where marker m occurs in text t
Occurrences(t, m) ==
  {i \in 1..Len(t) : i + Len(m) - 1 <= Len(t) /\ SubSeq(t, i, i + Len(m) - 1) = m}

FirstStart(p) == MinOf(Occurrences(p.text, StartMarker(p.section_title)))

EndsAfterStart(p) ==
  {j \in Occurrences(p.text, EndMarker(p.section_title)) : j >= FirstStart(p)}

\* C15: the slicer takes the text from the first start marker up to, not
\* including, the first end marker at or after it, and returns None without
\* a model call when the start marker is absent or no end marker follows.
C15_SectionSlice ==
  section # None =>
    IF Occurrences(pdf[1].text, StartMarker(pdf[1].section_title)) = {}
       \/ EndsAfterStart(pdf[1]) = {}
    THEN /\ section[1].section_text = None
         /\ section[1].llmCalls = 0
         /\ section[1].ret = None
    ELSE /\ section[1].section_text =
              Some(SubSeq(pdf[1].text, FirstStart(pdf[1]), MinOf(EndsAfterStart(pdf[1])) - 1))
         /\ section[1].llmCalls = 1

C15_Witness ==
  /\ section # None
  /\ pdf[1].section_title = "Item 5"
  /\ pdf[1].text = <<"Item ", "5 Information About Your Advisory Business", "x", "Item ", "6">>
  /\ section[1].section_text = Some(<<"Item ", "5 Information About Your Advisory Business", "x">>)
  /\ section[1].llmCalls = 1
  /\ section[1].ret = Some("summary")

(* ======= concurrent extraction requests (main.py, scraper.py) ========== *)
(* Every browser session runs main() in a thread of its own, in one        *)
(* process; within a session the URLs are handled one after the other.     *)
(* Each run builds its own WebsiteScraper; the Twisted reactor behind      *)
(* CrawlerProcess.start() belongs to the process.                          *)

\* number of sessions analysing websites at the same time
NumSessions == 2

\* number of URLs a session submits
MaxUrls == 2

Sessions == 1..NumSessions

Hosts == {"ria.example", "funds.example"}

IdleSession(n) == [pc |-> "idle", host |-> "", left |-> n]

InitSessions ==
  /\ MainIdle
  /\ IdleValidator
  /\ IdleClean /\ IdleExtract /\ IdleAnalyze /\ IdleSection /\ IdleUi
  /\ sess = [run |-> [s \in Sessions |-> IdleSession(MaxUrls)], reactorRan |-> FALSE]

unchangedBySessions ==
  UNCHANGED <<mainVars, vArticle, vResult, cleanVars, extractVars, analyzeVars,
              sectionVars, uiVars>>

(* main.py:315-317, scraper.py:200: the next URL of the session; nothing
   is waited for before trafilatura.fetch_url sends its request *)
SessFetch(s, h) ==
  /\ sess.run[s].pc = "idle"
  /\ sess.run[s].left > 0
  /\ sess' = [sess EXCEPT !.run[s].pc = "fetch", !.run[s].host = h]
  /\ unchangedBySessions

(* scraper.py:200-237: the primary fetch ends; the call returns, or goes
   on to the fallback *)
SessFetched(s, primaryOk) ==
  /\ sess.run[s].pc = "fetch"
  /\ sess' = IF primaryOk
             THEN [sess EXCEPT !.run[s] = IdleSession(@.left - 1)]
             ELSE [sess EXCEPT !.run[s].pc = "fallback"]
  /\ unchangedBySessions

(* scraper.py:176-182: process.start() raises when the reactor of the
   process is running or has run, and _run_scrapy returns None; else the
   crawl sends its request *)
SessCrawl(s) ==
  /\ sess.run[s].pc = "fallback"
  /\ sess' = IF sess.reactorRan
             THEN [sess EXCEPT !.run[s] = IdleSession(@.left - 1)]
             ELSE [sess EXCEPT !.run[s].pc = "crawl", !.reactorRan = TRUE]
  /\ unchangedBySessions

(* scraper.py:177-178, 237-252: the crawl ends and parse_article returns *)
SessCrawled(s) ==
  /\ sess.run[s].pc = "crawl"
  /\ sess' = [sess EXCEPT !.run[s] = IdleSession(@.left - 1)]
  /\ unchangedBySessions

NextSessions ==
  \E s \in Sessions :
    \/ \E h \in Hosts : SessFetch(s, h)
    \/ \E ok \in BOOLEAN : SessFetched(s, ok)
    \/ SessCrawl(s)
    \/ SessCrawled(s)

SpecSessions == InitSessions /\ [][NextSessions]_vars

(* ------------------------------ claim C12 ------------------------------ *)

\* the sessions with a request to host h in flight
InFlight(h) == {s \in Sessions : sess.run[s].pc \in {"fetch", "crawl"} /\ sess.run[s].host = h}

\* C12: at no moment is more than one request to the same host in flight,
\* whichever strategy issues it.
C12_HostLimiter == \A h \in Hosts : Cardinality(InFlight(h)) <= 1

(* ------------------------ claims C13, C17, C18 ------------------------- *)

\* the part of a date string before its first 'T'
BeforeT(ds) ==
  IF \E i \in 1..Len(ds) : ds[i] = "T"
  THEN SubSeq(ds, 1, MinOf({i \in 1..Len(ds) : ds[i] = "T"}) - 1)
  ELSE ds

ParsesAsDate(o) == o # None /\ Len(BeforeT(o[1])) = 1 /\ BeforeT(o[1])[1] \in IsoDates

DateOf(o) == IF ParsesAsDate(o) THEN Some(BeforeT(o[1])[1]) ELSE None

\* C13: in both strategies a date string is cut at its first 'T' and parsed
\* as a calendar date: "2024-03-15T10:30:00Z" gives 2024-03-15, and
\* "not-a-date" gives no date, raises nothing and leaves the other fields
\* extracted (the spider then tries its next date selector).
C13_DateParsing ==
  /\ parsed # None =>
       /\ parsed[1].date =
            IF \E i \in 1..Len(doc.date) : ParsesAsDate(doc.date[i])
            THEN DateOf(doc.date[MinOf({i \in 1..Len(doc.date) : ParsesAsDate(doc.date[i])})])
            ELSE None
       /\ doc.title[1] = Some(TitleText("1")) => parsed[1].title = Some(<<"T", "1", " ", "x">>)
       /\ parsed[1].content # None
  /\ (mArticle # None /\ doc.meta.kind = "dict") =>
       /\ mArticle[1].date = DateOf(doc.meta.date)
       /\ doc.meta.date = Some(GoodDate) => mArticle[1].date = Some("2024-03-15")
       /\ doc.meta.date = Some(BadDate) => mArticle[1].date = None
       /\ mArticle[1].title = doc.meta.title
       /\ mArticle[1].author = doc.meta.author

C13_Witness ==
  /\ parsed # None
  /\ mArticle # None
  /\ doc.date[1] = Some(BadDate)
  /\ doc.date[2] = Some(GoodDate)
  /\ parsed[1].date = Some("2024-03-15")
  /\ parsed[1].title # None
  /\ mArticle[1].date = None
  /\ mArticle[1].title = Some("P title")

\* the value a priority chain should give: the cleaned first non-empty
\* match, itself non-empty, and nothing when no rule matches
ChainValueOk(matches, v) ==
  IF \E i \in 1..Len(matches) : TruthyChars(matches[i])
  THEN /\ v = Some(clean_text(matches[MinOf({i \in 1..Len(matches) : TruthyChars(matches[i])})][1]))
       /\ v[1] # << >>
  ELSE v = None

\* C17: the spider's title and author are each the cleaned value of the
\* first selector, in priority order, with a non-empty match; the value is
\* itself non-empty, and the field is absent when no selector matches.
C17_PriorityChain ==
  parsed # None =>
    /\ ChainValueOk(doc.title, parsed[1].title)
    /\ ChainValueOk(doc.author, parsed[1].author)

\* the indices of the text nodes under container k
NodesIn(b, k) == {i \in 1..Len(b) : k \in b[i].inside}

PassesFilter(b, i) == Len(clean_text(b[i].text)) > 30

\* the cleaned nodes of S from index i on, joined with single spaces
RECURSIVE JoinedFrom(_, _, _)
JoinedFrom(b, S, i) ==
  IF i > Len(b) THEN << >>
  ELSE IF i \in S
       THEN (IF \E j \in S : j > i
             THEN clean_text(b[i].text) \o <<" ">> \o JoinedFrom(b, S, i + 1)
             ELSE clean_text(b[i].text))
       ELSE JoinedFrom(b, S, i + 1)

PassingOf(b, S) == JoinedFrom(b, {i \in S : PassesFilter(b, i)}, 1)

FirstContainer(b) == MinOf({k \in 1..NumContainers : NodesIn(b, k) # {}})

\* C18 as stated: content comes from the first container with any node,
\* and from the whole document only if no container has a passing node.
C18_Original ==
  parsed # None =>
    parsed[1].content =
      Some(IF \E k \in 1..NumContainers : \E i \in NodesIn(doc.blocks, k) : PassesFilter(doc.blocks, i)
           THEN PassingOf(doc.blocks, NodesIn(doc.blocks, FirstContainer(doc.blocks)))
           ELSE PassingOf(doc.blocks, 1..Len(doc.blocks)))

\* C18: content is the nodes longer than 30 characters after cleaning,
\* joined in document order, of the first container that has any node; when
\* that container has no passing node, or no container has a node, content
\* is built the same way from the whole document.
C18_FirstContainer ==
  parsed # None =>
    parsed[1].content =
      Some(IF /\ \E k \in 1..NumContainers : NodesIn(doc.blocks, k) # {}
              /\ \E i \in NodesIn(doc.blocks, FirstContainer(doc.blocks)) : PassesFilter(doc.blocks, i)
           THEN PassingOf(doc.blocks, NodesIn(doc.blocks, FirstContainer(doc.blocks)))
           ELSE PassingOf(doc.blocks, 1..Len(doc.blocks)))

C18_Witness ==
  /\ parsed # None
  /\ Len(doc.blocks) = 3
  /\ doc.blocks[1].inside = {1} /\ ~PassesFilter(doc.blocks, 1)
  /\ doc.blocks[2].inside = {2} /\ PassesFilter(doc.blocks, 2)
  /\ doc.blocks[3].inside = {} /\ PassesFilter(doc.blocks, 3)
  /\ parsed[1].content = Some(Rep("x", 31) \o <<" ">> \o Rep("y", 32))

(* ========== the session state of the app (main.py) ===================== *)
(* One action is one run of main(), started by an edit of the meeting      *)
(* notes or by a button.  Every run stores the notes widget's value in     *)
(* meeting_notes (main.py:262-268) before it looks at the buttons.         *)

\* largest number of lines in the URL text area
MaxLines == 2

\* largest number of scrapes in a session
MaxScrapes == 4

UrlA == "https://ria.example/a"

UrlB == "https://ria.example/b"

Urls == {UrlA, UrlB}

AdvUrl == "https://adviserinfo.sec.gov/firm/summary/111295"

RECURSIVE UrlLists(_)
UrlLists(n) ==
  IF n = 0 THEN {<< >>}
  ELSE UrlLists(n - 1) \cup {Append(l, u) : l \in UrlLists(n - 1), u \in Urls}

\* what scraper.parse_article(url) returns: None, or an article whose
\* content passed the length test; what analyze_content returns for it
ScrapeOutcomes(url) ==
  {[article |-> None, analysis |-> "none"]}
    \cup {[article |-> Some([ArticleContent(url) EXCEPT !.content = Some("article text")]),
           analysis |-> a] : a \in {"parsed", "error record"}}

\* the outcomes of the scrapes of a list of URLs, one for each line
OutcomeLists(urls) ==
  {o \in [1..Len(urls) -> UNION {ScrapeOutcomes(u) : u \in Urls}] :
     \A i \in 1..Len(urls) : o[i] \in ScrapeOutcomes(urls[i])}

\* dict[key] = value
Put(d, key, value) == [x \in DOMAIN d \cup {key} |-> IF x = key THEN value ELSE d[x]]

\* a loop that scrapes every URL of the list
ShouldScrape_Always(url, analyses) == TRUE

\* main.py:316  if url not in st.session_state.analyses
ShouldScrape(url, analyses) == url \notin DOMAIN analyses

\* main.py:318  if article and article.content
ArticleUsable(a) == a # None /\ TruthyText(a[1].content)

\* main.py:316-326  one turn of the loop over the URLs
ReviewUrl(st, url, o) ==
  IF ~ShouldScrape(url, st.analyses) THEN st
  ELSE IF ArticleUsable(o.article)
       THEN [st EXCEPT !.analyses = Put(@, url, [article |-> o.article[1],
                                                  analysis |-> o.analysis]),
                       !.scrapes[url] = @ + 1,
                       !.analysed[url] = @ + 1,
                       !.last[url] = "ok"]
       ELSE [st EXCEPT !.scrapes[url] = @ + 1, !.last[url] = "failed"]

\* main.py:315-326  the loop from the i-th URL on
RECURSIVE ReviewLoop(_, _, _, _)
ReviewLoop(st, urls, outcomes, i) ==
  IF i > Len(urls) THEN st
  ELSE ReviewLoop(ReviewUrl(st, urls[i], outcomes[i]), urls, outcomes, i + 1)

\* main.py:43-51  init_session_state on a new session, with the history
\* of the scrapes kept beside it
InitUi ==
  /\ MainIdle
  /\ IdleValidator
  /\ IdleClean /\ IdleExtract /\ IdleAnalyze /\ IdleSection /\ IdleSessions
  /\ ui = [analyses |-> EmptyDict, adv_analyses |-> EmptyDict, fund_matches |-> EmptyDict,
           meeting_notes |-> "", widget |-> "",
           scrapes |-> [u \in Urls |-> 0], analysed |-> [u \in Urls |-> 0],
           last |-> [u \in Urls |-> "none"],
           run |-> [kind |-> "new", urls |-> << >>]]

unchangedByUi ==
  UNCHANGED <<mainVars, vArticle, vResult, cleanVars, extractVars, analyzeVars,
              sectionVars, sessVars>>

\* main.py:262-268  the run stores the widget's value
WithNotes(st) == [st EXCEPT !.meeting_notes = st.widget]

(* the user edits the meeting notes: a run with no button, main.py:262-268 *)
EditNotes(text) ==
  /\ text # ui.widget
  /\ ui' = [WithNotes([ui EXCEPT !.widget = text]) EXCEPT
              !.run = [kind |-> "notes", urls |-> << >>]]
  /\ unchangedByUi

(* "Step 1: Review RIA Info", main.py:271-272, 313-329 *)
Review(urls, outcomes) ==
  /\ ui.scrapes[UrlA] + ui.scrapes[UrlB] + Len(urls) <= MaxScrapes
  /\ ui' = [(IF urls # << >> \/ WithNotes(ui).meeting_notes # ""
             THEN ReviewLoop(WithNotes(ui), urls, outcomes, 1)
             ELSE WithNotes(ui)) EXCEPT
              !.run = [kind |-> "review", urls |-> urls]]
  /\ unchangedByUi

(* "Step 2: Review ADV Filing", main.py:333-347 *)
ReviewAdv(ok) ==
  /\ ui' = [(IF ok
             THEN [WithNotes(ui) EXCEPT !.adv_analyses = Put(@, AdvUrl, "adv content")]
             ELSE WithNotes(ui)) EXCEPT
              !.run = [kind |-> "adv", urls |-> << >>]]
  /\ unchangedByUi

(* "Step 3: Suggest Mutual Funds", main.py:350-391 *)
SuggestFunds(ok) ==
  /\ ui' = [(IF ui.analyses # EmptyDict /\ ui.adv_analyses # EmptyDict /\ ok
             THEN [WithNotes(ui) EXCEPT !.fund_matches = <<"fund match">>]
             ELSE WithNotes(ui)) EXCEPT
              !.run = [kind |-> "funds", urls |-> << >>]]
  /\ unchangedByUi

(* "Clear All Analyses" and the rerun it starts, main.py:281-285 *)
ClearAll ==
  /\ ui' = [WithNotes(ui) EXCEPT !.analyses = EmptyDict, !.adv_analyses = EmptyDict,
                                 !.fund_matches = EmptyDict,
                                 !.run = [kind |-> "clear", urls |-> << >>]]
  /\ unchangedByUi

NextUi ==
  \/ \E text \in {"", "prefers ESG"} : EditNotes(text)
  \/ \E urls \in UrlLists(MaxLines) : \E outcomes \in OutcomeLists(urls) :
       Review(urls, outcomes)
  \/ \E ok \in BOOLEAN : ReviewAdv(ok)
  \/ \E ok \in BOOLEAN : SuggestFunds(ok)
  \/ ClearAll

SpecUi == InitUi /\ [][NextUi]_vars

(* ------------------------------ claim C22 ------------------------------ *)

InList(u, urls) == \E i \in 1..Len(urls) : urls[i] = u

\* C22: over any sequence of reviews and clears, analyses has an entry for
\* a URL only if a scrape of it returned an article with non-empty content;
\* a URL in the map is not scraped or analysed again until the map is
\* cleared; a URL whose scrape failed has no entry and is scraped again by
\* the next review that lists it; clearing empties analyses, adv_analyses
\* and fund_matches and leaves meeting_notes as it was.
C22_SessionAnalyses ==
  /\ [](\A u \in Urls :
          /\ u \in DOMAIN ui.analyses =>
               /\ ui.last[u] = "ok"
               /\ ui.analyses[u].article.url = u
               /\ ui.analyses[u].article.content \notin {None, Some("")}
          /\ ui.last[u] = "failed" => u \notin DOMAIN ui.analyses)
  /\ [][/\ \A u \in Urls :
             /\ u \in DOMAIN ui.analyses =>
                  (ui'.scrapes[u] = ui.scrapes[u] /\ ui'.analysed[u] = ui.analysed[u])
             /\ (u \notin DOMAIN ui.analyses /\ ui'.run.kind = "review" /\ InList(u, ui'.run.urls))
                  => ui'.scrapes[u] > ui.scrapes[u]
             /\ (u \in DOMAIN ui'.analyses /\ u \notin DOMAIN ui.analyses)
                  => ui'.scrapes[u] > ui.scrapes[u]
          /\ ui'.run.kind = "clear" =>
               /\ ui'.analyses = EmptyDict
               /\ ui'.adv_analyses = EmptyDict
               /\ ui'.fund_matches = EmptyDict
               /\ ui'.meeting_notes = ui.meeting_notes]_vars

C22_Witness ==
  /\ ui # << >>
  /\ ui.run.kind = "clear"
  /\ ui.analyses = EmptyDict
  /\ ui.meeting_notes = "prefers ESG"
  /\ ui.scrapes[UrlA] = 3
  /\ ui.analysed[UrlA] = 1
  /\ ui.last[UrlA] = "ok"
  /\ ui.last[UrlB] = "failed"

====
